---- MODULE Spec2Model ----
(***************************************************************************)
(* Margin-analysis pipeline of the stress-analysis service:               *)
(*   src/src/calculators/margin_calc_python.py  (native margin engine)    *)
(*   src/src/calculators/margin_calc_excel.py   (registry matcher and     *)
(*                                               spreadsheet backend)     *)
(*   src/main.py                                (run_full_analysis)       *)
(*   src/src/extractors/result_organizer.py     (chapter organizer)       *)
(*                                                                         *)
(* Numbers.  A Python float is modelled by the rational it holds: a       *)
(* record [n, d] with d a power of two (an exactly representable double). *)
(* A quotient of two such numbers is carried as a rational [num, den];    *)
(* round(q, 2) is modelled by Round2, which returns the result in         *)
(* hundredths (0.75 is 75, 99.99 is 9999).                                *)
(***************************************************************************)
EXTENDS Integers, Naturals, Sequences, FiniteSets, TLC

VARIABLES
    eng_pc,       \* engine harness: "idle" before any call, "returned" after one
    eng_fn,       \* which function was called: "panel" or "joint"
    eng_name,     \* the component name passed to the call
    eng_loads,    \* the load dictionary passed to the call
    eng_result,   \* the dictionary the call returned
    m_pc,         \* matcher harness: "idle" before the call, "returned" after it
    m_name,       \* the component name passed to find_registry_config
    m_registry,   \* the registry passed to find_registry_config
    m_result,     \* the config it returned, or None
    pc,           \* run_full_analysis: position of the request handler
    request,      \* the AnalysisRequest
    mapping_data, \* the component mapping in use
    extracted,    \* extracted_data["Results"]
    final_results,\* final_results of the handler
    saved,        \* content of the results file written by this run, or None
    response,     \* the response body, or None
    extract_calls,\* history: the calls of the extractors, in order
    xl_pc,        \* calculate_with_excel: position, "off" while not called
    xl_registry,  \* the loaded registry
    app,          \* the automation application: "none", "running", "quit" or "quit_failed"
    open_books,   \* the workbooks open in the application
    wb,           \* the workbook of the component in hand, or None
    xl_ti,        \* index of comp_type in ["Elements", "Freebodies"]
    xl_ci,        \* index of the component in hand within results[comp_type]
    final_output, \* final_output of calculate_with_excel
    xl_exc,       \* the exception in flight or caught, or None
    xl_ret,       \* the value calculate_with_excel returned, or None
    opened_for,   \* history: the components a workbook was opened for
    missing_for,  \* history: the components whose workbook file was not found
    found_for,    \* history: the components whose workbook file was found
    org_pc,       \* organizer harness: "idle", "organized", then "reorganized"
    org_in,       \* the raw results passed to organize_results_into_chapters
    org_out,      \* the report it returned
    org_again     \* the report returned for org_out passed in again

engVars == <<eng_pc, eng_fn, eng_name, eng_loads, eng_result>>

matchVars == <<m_pc, m_name, m_registry, m_result>>

runVars == <<pc, request, mapping_data, extracted, final_results, saved, response,
            extract_calls>>

xlVars == <<xl_pc, xl_registry, app, open_books, wb, xl_ti, xl_ci, final_output, xl_exc,
            xl_ret, opened_for, missing_for, found_for>>

orgVars == <<org_pc, org_in, org_out, org_again>>

vars == <<engVars, matchVars, runVars, xlVars, orgVars>>

----------------------------------------------------------------------------
(* Bounds of the model *)

\* greatest load-case identifier of a request (load cases are 1..MaxLoadCase)
MaxLoadCase == 2

\* greatest number of entries of a registry handed to the matcher
MaxRegistry == 3

----------------------------------------------------------------------------
(* Arithmetic on the modelled floats *)

\* denominator of the near-zero threshold 1e-6
EpsDen == 1000000

\* the sentinel reserve factor 99.99, in hundredths
Sentinel == 9999

Num(n, d) == [n |-> n, d |-> d]

AbsInt(i) == IF i < 0 THEN -i ELSE i

\* abs(x)
Abs(x) == [n |-> AbsInt(x.n), d |-> x.d]

\* x > 1e-6 for x >= 0:  n/d > 1/EpsDen  <=>  n * EpsDen > d  <=>  n > d \div EpsDen
GtEps(x) == x.n > x.d \div EpsDen

RECURSIVE Gcd(_, _)
Gcd(a, b) == IF b = 0 THEN a ELSE Gcd(b, a % b)

RECURSIVE IsPow2(_)
IsPow2(k) == IF k = 1 THEN TRUE ELSE IF k % 2 # 0 THEN FALSE ELSE IsPow2(k \div 2)

\* the rational num/den is a dyadic rational, hence (in this range) a double
Dyadic(num, den) == IsPow2(den \div Gcd(num, den))

\* remainder of num * 2^k modulo den
RECURSIVE ShiftMod(_, _, _)
ShiftMod(r, k, den) == IF k = 0 THEN r ELSE ShiftMod((2 * r) % den, k - 1, den)

\* number of doublings that bring num/den (0 < num/den < 1) into [1, 2)
RECURSIVE UpShift(_, _)
UpShift(num, den) == IF num >= den THEN 0 ELSE 1 + UpShift(2 * num, den)

\* floor(log2(num/den)) for num/den >= 1
RECURSIVE Log2Floor(_, _)
Log2Floor(num, den) == IF num \div den < 2 THEN 0 ELSE 1 + Log2Floor(num \div 2, den)

\* The double nearest to the non-dyadic rational num/den lies above it: the
\* bits beyond the 53-bit significand (52 after the leading one) are more than
\* half a unit in the last place.
FloatAbove(num, den) ==
    LET shift == IF num >= den
                 THEN 52 - Log2Floor(num, den)
                 ELSE 52 + UpShift(num, den)
        rest  == ShiftMod(num % den, shift, den)
    IN  2 * rest > den

\* round(num/den, 2) in hundredths, where num/den is the exact quotient of two
\* doubles and the operand of round is the double nearest to it.  Python rounds
\* the double correctly, ties to even; a decimal tie that is no double falls to
\* the side on which its double lies.
Round2(num, den) ==
    LET q == (100 * num) \div den
        r == (100 * num) % den
    IN  IF 2 * r < den THEN q
        ELSE IF 2 * r > den THEN q + 1
        ELSE IF Dyadic(num, den) THEN (IF q % 2 = 0 THEN q ELSE q + 1)
        ELSE IF FloatAbove(num, den) THEN q + 1 ELSE q

----------------------------------------------------------------------------
(* Text.  A Python str is a sequence of one-character strings, so that the  *)
(* substring tests and lower() of the code are computed, not assumed.       *)

UpperToLower ==
    [c \in {"A","B","C","D","E","F","G","H","I","J","K","L","M",
            "N","O","P","Q","R","S","T","U","V","W","X","Y","Z"} |->
        CASE c = "A" -> "a" [] c = "B" -> "b" [] c = "C" -> "c" [] c = "D" -> "d"
          [] c = "E" -> "e" [] c = "F" -> "f" [] c = "G" -> "g" [] c = "H" -> "h"
          [] c = "I" -> "i" [] c = "J" -> "j" [] c = "K" -> "k" [] c = "L" -> "l"
          [] c = "M" -> "m" [] c = "N" -> "n" [] c = "O" -> "o" [] c = "P" -> "p"
          [] c = "Q" -> "q" [] c = "R" -> "r" [] c = "S" -> "s" [] c = "T" -> "t"
          [] c = "U" -> "u" [] c = "V" -> "v" [] c = "W" -> "w" [] c = "X" -> "x"
          [] c = "Y" -> "y" [] c = "Z" -> "z"]

\* str.lower()
Lower(s) == [i \in DOMAIN s |-> IF s[i] \in DOMAIN UpperToLower THEN UpperToLower[s[i]] ELSE s[i]]

\* sub in s
Contains(sub, s) ==
    \E i \in 0..(Len(s) - Len(sub)) : SubSeq(s, i + 1, i + Len(sub)) = sub

\* keys of the compiled-in allowables table
S_Upper_Skin_Panel == <<"U", "p", "p", "e", "r", "_", "S", "k", "i", "n", "_", "P", "a", "n", "e", "l">>
S_Intermediate_Ribs == <<"I", "n", "t", "e", "r", "m", "e", "d", "i", "a", "t", "e", "_", "R", "i", "b", "s">>
S_Flap_Box_Assembly == <<"F", "l", "a", "p", "_", "B", "o", "x", "_", "A", "s", "s", "e", "m", "b", "l", "y">>
S_Front_Spar_Splice == <<"F", "r", "o", "n", "t", "_", "S", "p", "a", "r", "_", "S", "p", "l", "i", "c", "e">>
S_Flap_Shear_Clip == <<"F", "l", "a", "p", "_", "S", "h", "e", "a", "r", "_", "C", "l", "i", "p">>
S_Default_Joint == <<"D", "e", "f", "a", "u", "l", "t", "_", "J", "o", "i", "n", "t">>

\* the literals of the pattern tests
S_Rib == <<"R", "i", "b">>
S_Box == <<"B", "o", "x">>
S_Clip == <<"C", "l", "i", "p">>
S_Spar == <<"S", "p", "a", "r">>

\* further component names, as a mapping file may hold them
S_Rib_12 == <<"R", "i", "b", "_", "1", "2">>
S_Wing_Box == <<"W", "i", "n", "g", "_", "B", "o", "x">>
S_rib_3 == <<"r", "i", "b", "_", "3">>
S_Bracket_7 == <<"B", "r", "a", "c", "k", "e", "t", "_", "7">>
S_Aft_Spar_Web == <<"A", "f", "t", "_", "S", "p", "a", "r", "_", "W", "e", "b">>
S_Clip_4 == <<"C", "l", "i", "p", "_", "4">>
S_Upper_Skin_Panel_2 == <<"U", "p", "p", "e", "r", "_", "S", "k", "i", "n", "_", "P", "a", "n", "e", "l", "_", "2">>

----------------------------------------------------------------------------
(* Dictionaries.  An insertion-ordered dict whose order the code reads is a  *)
(* sequence of [key, val] entries with distinct keys; a dict read only by    *)
(* key is a function.  A dict value is a record, so that x.get(k, default)   *)
(* is a test of the record's domain.                                        *)

HasKey(dct, k) == \E i \in DOMAIN dct : dct[i].key = k

Lookup(dct, k) == dct[CHOOSE i \in DOMAIN dct : dct[i].key = k].val

\* an error marker: a str where numeric data was expected
ErrStr(text) == [str |-> text]

\* isinstance(v, str)
IsStr(v) == DOMAIN v = {"str"}

\* Python's None
None == [none |-> TRUE]

\* not x, for x a dict or None
Falsy(x) == x = None \/ DOMAIN x = {}

MinOf(S) == CHOOSE i \in S : \A j \in S : i <= j

----------------------------------------------------------------------------
(* Component matcher: margin_calc_excel.py, find_registry_config *)

\* the indices of the registry entries whose lower-cased key occurs in the
\* lower-cased name (line 35)
PatternHits(component_name, registry) ==
    {i \in DOMAIN registry : Contains(Lower(registry[i].key), Lower(component_name))}

\* which of the matching entries the loop of lines 32-37 returns: the first
FirstHitMutant(hits, registry) ==
    CHOOSE i \in hits : \A j \in hits :
        \/ Len(registry[i].key) > Len(registry[j].key)
        \/ Len(registry[i].key) = Len(registry[j].key) /\ i <= j
FirstHit(hits, registry) == MinOf(hits)

find_registry_config(component_name, registry) ==
    IF HasKey(registry, component_name) THEN Lookup(registry, component_name)
    ELSE LET hits == PatternHits(component_name, registry)
         IN  IF hits = {} THEN None ELSE registry[FirstHit(hits, registry)].val

----------------------------------------------------------------------------
(* Native margin engine: margin_calc_python.py *)

ALLOWABLES == <<
    [key |-> S_Upper_Skin_Panel,  val |-> [Shear |-> 150, Compression |-> 150]],
    [key |-> S_Intermediate_Ribs, val |-> [Shear |-> 250, Compression |-> 250]],
    [key |-> S_Flap_Box_Assembly, val |-> [Shear |-> 500, Compression |-> 500]],
    [key |-> S_Front_Spar_Splice, val |-> [Shear |-> 50000, Bearing |-> 75000]],
    [key |-> S_Flap_Shear_Clip,   val |-> [Shear |-> 50000, Bearing |-> 75000]],
    [key |-> S_Default_Joint,     val |-> [Shear |-> 25000]] >>

\* the allowables the panel function resolves for a name (lines 29-33)
PanelAllowables(element_name) ==
    IF HasKey(ALLOWABLES, element_name) THEN Lookup(ALLOWABLES, element_name)
    ELSE IF Contains(S_Rib, element_name) THEN Lookup(ALLOWABLES, S_Intermediate_Ribs)
    ELSE IF Contains(S_Box, element_name) THEN Lookup(ALLOWABLES, S_Flap_Box_Assembly)
    ELSE [Shear |-> 100, Compression |-> 100]

\* allow_comp and allow_shear (lines 35-36)
PanelAllowComp(element_name) ==
    LET allowables == PanelAllowables(element_name)
    IN  IF "Compression" \in DOMAIN allowables THEN allowables.Compression ELSE 100

PanelAllowShear(element_name) ==
    LET allowables == PanelAllowables(element_name)
    IN  IF "Shear" \in DOMAIN allowables THEN allowables.Shear ELSE 100

\* force.get(key, 0.0)
ForceGet(force, key) == IF key \in DOMAIN force THEN force[key] ELSE Num(0, 1)

\* the quotient allow / x of an allowable and a positive load
Quot(allow, x) == [num |-> allow * x.d, den |-> x.n]

\* the literal 99.99
SentinelQ == [num |-> Sentinel, den |-> 100]

\* allow / x if x > 1e-6 else 99.99
GuardedRFMutant(allow, x) == IF GtEps(x) THEN Quot(allow, x) ELSE [num |-> 0, den |-> 1]
GuardedRF(allow, x) == IF GtEps(x) THEN Quot(allow, x) ELSE SentinelQ

\* p < q on quotients
QLess(p, q) == p.num * q.den < q.num * p.den

\* the critical mode of one load case (lines 50-59)
PanelCriticalMixed(rf_comp, rf_shear, fx, fxy, allow_comp, allow_shear) ==
    IF QLess(rf_comp, rf_shear)
    THEN [rf |-> rf_comp, mode |-> "Compression", applied |-> fxy, limit |-> allow_shear]
    ELSE [rf |-> rf_shear, mode |-> "Shear", applied |-> fxy, limit |-> allow_shear]
PanelCriticalMutant(rf_comp, rf_shear, fx, fxy, allow_comp, allow_shear) ==
    IF QLess(rf_shear, rf_comp)
    THEN [rf |-> rf_comp, mode |-> "Compression", applied |-> fx, limit |-> allow_comp]
    ELSE [rf |-> rf_shear, mode |-> "Shear", applied |-> fxy, limit |-> allow_shear]
PanelCritical(rf_comp, rf_shear, fx, fxy, allow_comp, allow_shear) ==
    IF QLess(rf_comp, rf_shear)
    THEN [rf |-> rf_comp, mode |-> "Compression", applied |-> fx, limit |-> allow_comp]
    ELSE [rf |-> rf_shear, mode |-> "Shear", applied |-> fxy, limit |-> allow_shear]

\* the record of one load case (lines 42-67)
PanelRecord(allow_comp, allow_shear, force) ==
    LET fx       == Abs(ForceGet(force, "Fx_Nmm"))
        fxy      == Abs(ForceGet(force, "Fxy_Nmm"))
        rf_comp  == GuardedRF(allow_comp, fx)
        rf_shear == GuardedRF(allow_shear, fxy)
        crit     == PanelCritical(rf_comp, rf_shear, fx, fxy, allow_comp, allow_shear)
    IN  [Method       |-> "Python_Native",
         Applied_Load |-> Round2(crit.applied.n, crit.applied.d),
         Allowable    |-> crit.limit,
         RF           |-> Round2(crit.rf.num, crit.rf.den),
         Failure_Mode |-> crit.mode]

calculate_panel_margins(element_name, forces_dict) ==
    LET allow_comp  == PanelAllowComp(element_name)
        allow_shear == PanelAllowShear(element_name)
    IN  [lc \in {k \in DOMAIN forces_dict : ~IsStr(forces_dict[k])} |->
            PanelRecord(allow_comp, allow_shear, forces_dict[lc])]

\* the allowables the joint function resolves for a name (lines 78-82)
JointAllowablesMutant(component_name) ==
    IF HasKey(ALLOWABLES, component_name) THEN Lookup(ALLOWABLES, component_name)
    ELSE IF Contains(S_Clip, component_name) THEN Lookup(ALLOWABLES, S_Flap_Shear_Clip)
    ELSE Lookup(ALLOWABLES, S_Front_Spar_Splice)
JointAllowables(component_name) ==
    IF HasKey(ALLOWABLES, component_name) THEN Lookup(ALLOWABLES, component_name)
    ELSE IF Contains(S_Clip, component_name) THEN Lookup(ALLOWABLES, S_Flap_Shear_Clip)
    ELSE IF Contains(S_Spar, component_name) THEN Lookup(ALLOWABLES, S_Front_Spar_Splice)
    ELSE Lookup(ALLOWABLES, S_Default_Joint)

\* allowable_shear (line 84)
JointAllowShear(component_name) ==
    LET allowables == JointAllowables(component_name)
    IN  IF "Shear" \in DOMAIN allowables THEN allowables.Shear ELSE 25000

MaxInt(a, b) == IF a > b THEN a ELSE b

\* the integer part of a root; the root itself where s is a perfect square
ISqrt(s) == CHOOSE r \in 0..s : r * r <= s /\ (r + 1) * (r + 1) > s

\* math.sqrt(x**2 + y**2 + z**2), exact where the sum of squares is the square
\* of a double.  The three operands are brought to a common denominator and
\* their common factor g is taken out of the root, sqrt(g^2 * s) = g * sqrt(s),
\* which keeps every intermediate value small.
Norm3(x, y, z) ==
    LET d  == MaxInt(x.d, MaxInt(y.d, z.d))
        a  == AbsInt(x.n) * (d \div x.d)
        b  == AbsInt(y.n) * (d \div y.d)
        c  == AbsInt(z.n) * (d \div z.d)
        g  == Gcd(a, Gcd(b, c))
    IN  IF g = 0 THEN Num(0, 1)
        ELSE Num(g * ISqrt((a \div g) * (a \div g) + (b \div g) * (b \div g)
                           + (c \div g) * (c \div g)), d)

\* the resultant force of one load case (lines 90-93)
JointResultantMutant(loads) ==
    Norm3(ForceGet(loads, "Fx"), ForceGet(loads, "Fy"), ForceGet(loads, "Mz"))
JointResultant(loads) ==
    Norm3(ForceGet(loads, "Fx"), ForceGet(loads, "Fy"), ForceGet(loads, "Fz"))

\* the record of one load case (lines 90-104)
JointRecord(allowable_shear, loads) ==
    LET resultant == JointResultant(loads)
        rf        == GuardedRF(allowable_shear, resultant)
    IN  [Method       |-> "Python_Native",
         Applied_Load |-> Round2(resultant.n, resultant.d),
         Allowable    |-> allowable_shear,
         RF           |-> Round2(rf.num, rf.den),
         Failure_Mode |-> "Resultant Shear"]

calculate_joint_margins(component_name, loads_dict) ==
    LET allowable_shear == JointAllowShear(component_name)
    IN  [lc \in {k \in DOMAIN loads_dict : ~IsStr(loads_dict[k])} |->
            JointRecord(allowable_shear, loads_dict[lc])]

----------------------------------------------------------------------------
(* Inputs of the engine: names, load records, load dictionaries *)

EngineNames ==
    {S_Upper_Skin_Panel, S_Intermediate_Ribs, S_Flap_Box_Assembly, S_Front_Spar_Splice,
     S_Flap_Shear_Clip, S_Default_Joint, S_Rib_12, S_Wing_Box, S_rib_3, S_Bracket_7,
     S_Aft_Spar_Web, S_Clip_4, S_Upper_Skin_Panel_2}

\* 2^-20, a positive load below 1e-6
Tiny == Num(1, 1048576)

ShellForce(fx, fy, fxy) == [Fx_Nmm |-> fx, Fy_Nmm |-> fy, Fxy_Nmm |-> fxy]

\* shell-force records as extract_shell_forces builds them (op2_reader.py 117-121)
PanelForces ==
    { ShellForce(Num(50, 1),    Num(7, 1),   Num(200, 1)),
      ShellForce(Num(-200, 1),  Num(0, 1),   Num(50, 1)),
      ShellForce(Num(100, 1),   Num(-3, 1),  Num(-100, 1)),
      ShellForce(Num(0, 1),     Num(900, 1), Num(0, 1)),
      ShellForce(Tiny,          Num(0, 1),   Num(-1, 1048576)),
      ShellForce(Num(0, 1),     Num(0, 1),   Num(300, 1)),
      ShellForce(Num(-150, 1),  Num(0, 1),   Tiny),
      ShellForce(Num(1, 2),     Num(1, 2),   Num(3, 2)),
      ShellForce(Num(160, 1),   Num(0, 1),   Num(32, 1)),
      ShellForce(Num(2000, 1),  Num(0, 1),   Num(10000, 1)),
      ShellForce(Num(240, 1),   Num(0, 1),   Num(400, 1)),
      ShellForce(Num(500, 1),   Num(0, 1),   Num(-250, 1)) }

Freebody(fx, fy, fz, mx, my, mz) ==
    [Fx |-> fx, Fy |-> fy, Fz |-> fz, Mx |-> mx, My |-> my, Mz |-> mz]

\* freebody records as extract_freebody_loads builds them (op2_reader.py 79-86)
JointLoads ==
    { Freebody(Num(30000, 1),  Num(40000, 1),  Num(0, 1),     Num(0, 1),    Num(0, 1),   Num(0, 1)),
      Freebody(Num(30000, 1),  Num(-40000, 1), Num(0, 1),     Num(90000, 1), Num(-5, 1), Num(70000, 1)),
      Freebody(Num(0, 1),      Num(0, 1),      Num(0, 1),     Num(0, 1),    Num(0, 1),   Num(0, 1)),
      Freebody(Num(0, 1),      Num(0, 1),      Num(0, 1),     Num(12000, 1), Num(800, 1), Num(50000, 1)),
      Freebody(Num(0, 1),      Tiny,           Num(0, 1),     Num(25000, 1), Num(0, 1),  Num(0, 1)),
      Freebody(Num(15000, 1),  Num(0, 1),      Num(-20000, 1), Num(1, 1),   Num(2, 1),   Num(3, 1)),
      Freebody(Num(20000, 1),  Num(-30000, 1), Num(60000, 1), Num(0, 1),    Num(0, 1),   Num(0, 1)),
      Freebody(Num(-20000, 1), Num(10000, 1),  Num(20000, 1), Num(0, 1),    Num(400, 1), Num(0, 1)),
      Freebody(Num(3, 2),      Num(2, 1),      Num(0, 1),     Num(0, 1),    Num(0, 1),   Num(1, 2)),
      Freebody(Num(0, 1),      Num(0, 1),      Num(-160000, 1), Num(0, 1),  Num(0, 1),   Num(0, 1)),
      Freebody(Num(1200, 1),   Num(1600, 1),   Num(0, 1),     Num(0, 1),    Num(0, 1),   Num(0, 1)) }

\* the error markers the extractors store in place of a record
ErrorMarkers == { ErrStr("Load Case missing"), ErrStr("Element not in this LC") }

\* a load-case identifier as a dictionary key: its text, so that load-case keys
\* and the key "Error" are keys of one kind
LcKey(i) == ToString(i)

LoadCases == {LcKey(i) : i \in 1..MaxLoadCase}

\* every dictionary from some of the load cases to an entry of `entries`
LoadDicts(entries) ==
    UNION { [lcs -> entries] : lcs \in SUBSET LoadCases }

----------------------------------------------------------------------------
(* The engine called on its inputs *)

EngineIdle ==
    /\ eng_pc = "idle"
    /\ eng_fn = "none"
    /\ eng_name = <<>>
    /\ eng_loads = <<>>
    /\ eng_result = <<>>

MatcherIdle ==
    /\ m_pc = "idle"
    /\ m_name = <<>>
    /\ m_registry = <<>>
    /\ m_result = None

\* final_results as line 131 of main.py and line 49 of margin_calc_excel.py set it
EmptyResults == [Elements |-> <<>>, Freebodies |-> <<>>]

RunIdle ==
    /\ pc = "off"
    /\ request = None
    /\ mapping_data = <<>>
    /\ extracted = EmptyResults
    /\ final_results = None
    /\ saved = None
    /\ response = None
    /\ extract_calls = <<>>

ExcelIdle ==
    /\ xl_pc = "off"
    /\ xl_registry = <<>>
    /\ app = "none"
    /\ open_books = {}
    /\ wb = None
    /\ xl_ti = 1
    /\ xl_ci = 1
    /\ final_output = None
    /\ xl_exc = None
    /\ xl_ret = None
    /\ opened_for = {}
    /\ missing_for = {}
    /\ found_for = {}

OrganizerIdle ==
    /\ org_pc = "idle"
    /\ org_in = <<>>
    /\ org_out = <<>>
    /\ org_again = <<>>

EngineInit == EngineIdle /\ MatcherIdle /\ RunIdle /\ ExcelIdle /\ OrganizerIdle

\* calculate_panel_margins(element_name, forces_dict) is called and returns
CallPanel ==
    \E element_name \in EngineNames, forces_dict \in LoadDicts(PanelForces \cup ErrorMarkers) :
        /\ eng_pc = "idle"
        /\ eng_pc' = "returned"
        /\ eng_fn' = "panel"
        /\ eng_name' = element_name
        /\ eng_loads' = forces_dict
        /\ eng_result' = calculate_panel_margins(element_name, forces_dict)
        /\ UNCHANGED <<matchVars, runVars, xlVars, orgVars>>

\* calculate_joint_margins(component_name, loads_dict) is called and returns
CallJoint ==
    \E component_name \in EngineNames, loads_dict \in LoadDicts(JointLoads \cup ErrorMarkers) :
        /\ eng_pc = "idle"
        /\ eng_pc' = "returned"
        /\ eng_fn' = "joint"
        /\ eng_name' = component_name
        /\ eng_loads' = loads_dict
        /\ eng_result' = calculate_joint_margins(component_name, loads_dict)
        /\ UNCHANGED <<matchVars, runVars, xlVars, orgVars>>

EngineNext == CallPanel \/ CallJoint

SpecEngine == EngineInit /\ [][EngineNext]_vars

----------------------------------------------------------------------------
(* Properties of the native engine *)

\* p <= q on quotients
QLeq(p, q) == ~QLess(q, p)

\* k hundredths is the quotient q rounded to two decimals: |100 q - k| <= 1/2
NearestHundredth(k, q) == 2 * AbsInt(100 * q.num - k * q.den) <= q.den

\* the numeric load cases of the call that returned
NumericCases == {lc \in DOMAIN eng_loads : ~IsStr(eng_loads[lc])}

PanelReturned == eng_pc = "returned" /\ eng_fn = "panel"

JointReturned == eng_pc = "returned" /\ eng_fn = "joint"

\* C1: for every load case with a numeric record the panel function reports
\* RF = min(rf_comp, rf_shear) rounded to two decimals, rf_comp = allow_comp/|Fx|
\* and rf_shear = allow_shear/|Fxy| with 99.99 for a denominator <= 1e-6, and
\* Failure_Mode names a term that attains the minimum; allowables 150/150 with
\* Fx = 50 and Fxy = 200 give RF 0.75 and mode "Shear".
C1_PanelRF ==
    PanelReturned =>
        \A lc \in NumericCases :
            /\ lc \in DOMAIN eng_result
            /\ LET force    == eng_loads[lc]
                   res      == eng_result[lc]
                   rf_comp  == GuardedRF(PanelAllowComp(eng_name), Abs(force.Fx_Nmm))
                   rf_shear == GuardedRF(PanelAllowShear(eng_name), Abs(force.Fxy_Nmm))
               IN  /\ res.Failure_Mode \in {"Compression", "Shear"}
                   /\ res.Failure_Mode = "Compression" =>
                          QLeq(rf_comp, rf_shear) /\ NearestHundredth(res.RF, rf_comp)
                   /\ res.Failure_Mode = "Shear" =>
                          QLeq(rf_shear, rf_comp) /\ NearestHundredth(res.RF, rf_shear)
                   /\ ( /\ eng_name = S_Upper_Skin_Panel
                        /\ force.Fx_Nmm = Num(50, 1)
                        /\ force.Fxy_Nmm = Num(200, 1) ) =>
                          res.RF = 75 /\ res.Failure_Mode = "Shear"

\* a panel call that returned Scenario A's record
C1_Witness ==
    /\ PanelReturned
    /\ eng_name = S_Upper_Skin_Panel
    /\ \E lc \in NumericCases :
        /\ eng_loads[lc].Fx_Nmm = Num(50, 1)
        /\ eng_loads[lc].Fxy_Nmm = Num(200, 1)
        /\ eng_result[lc].RF = 75
        /\ eng_result[lc].Failure_Mode = "Shear"

\* C2: for every load case with a numeric record the joint function reports
\* RF = allowable_shear / r rounded to two decimals, r the Euclidean norm of
\* (Fx, Fy, Fz), and 99.99 when r <= 1e-6; Failure_Mode is "Resultant Shear";
\* Mx, My and Mz do not enter the result.
C2_JointRF ==
    JointReturned =>
        \A lc \in NumericCases :
            /\ lc \in DOMAIN eng_result
            /\ LET loads == eng_loads[lc]
                   res   == eng_result[lc]
                   r     == Norm3(loads.Fx, loads.Fy, loads.Fz)
               IN  /\ res.Failure_Mode = "Resultant Shear"
                   /\ IF GtEps(r)
                      THEN NearestHundredth(res.RF, Quot(JointAllowShear(eng_name), r))
                      ELSE res.RF = Sentinel

\* a joint call on a record with moments that returned RF 1.00 for r = 50000
C2_Witness ==
    /\ JointReturned
    /\ eng_name = S_Front_Spar_Splice
    /\ \E lc \in NumericCases :
        /\ eng_loads[lc].Fx = Num(30000, 1)
        /\ eng_loads[lc].Fy = Num(-40000, 1)
        /\ eng_loads[lc].Mx = Num(90000, 1)
        /\ eng_result[lc].RF = 100
        /\ eng_result[lc].Applied_Load = 5000000

\* the load of a numeric record is zero or near zero
ZeroLoad(fn, loads) ==
    IF fn = "panel"
    THEN ~GtEps(Abs(loads.Fx_Nmm)) /\ ~GtEps(Abs(loads.Fxy_Nmm))
    ELSE ~GtEps(Norm3(loads.Fx, loads.Fy, loads.Fz))

\* C4: for both archetypes a load case whose applied load is zero or near zero
\* yields a result with reserve factor 99.99 and status "PASS".
C4_ZeroLoadPass ==
    eng_pc = "returned" =>
        \A lc \in NumericCases :
            ZeroLoad(eng_fn, eng_loads[lc]) =>
                /\ lc \in DOMAIN eng_result
                /\ eng_result[lc].RF = Sentinel
                /\ "Status" \in DOMAIN eng_result[lc]
                /\ eng_result[lc].Status = "PASS"

----------------------------------------------------------------------------
(* The matcher called on its inputs *)

S_Intermediate_Ribs_2 == <<"I", "n", "t", "e", "r", "m", "e", "d", "i", "a", "t", "e", "_", "R", "i", "b", "s", "_", "2">>
S_RIB == <<"R", "I", "B">>
S_ib == <<"i", "b">>
S_Splice == <<"S", "p", "l", "i", "c", "e">>

\* entries a calculator_registry.json may hold: a key and its config
RegistryEntries ==
    { [key |-> S_Rib,               val |-> [filename |-> "rib_check.xlsx",    driver |-> "excel_simple"]],
      [key |-> S_Intermediate_Ribs, val |-> [filename |-> "rib_master.xlsx",   driver |-> "excel_master"]],
      [key |-> S_RIB,               val |-> [filename |-> "rib_upper.xlsx",    driver |-> "excel_simple"]],
      [key |-> S_ib,                val |-> [filename |-> "generic.xlsx",      driver |-> "excel_master"]],
      [key |-> S_Splice,            val |-> [filename |-> "splice.xlsx",       driver |-> "excel_simple"]],
      [key |-> <<>>,                val |-> [filename |-> "catch_all.xlsx",    driver |-> "excel_simple"]] }

\* the registries of at most MaxRegistry entries with distinct keys, in every order
Registries ==
    { r \in UNION { [1..n -> RegistryEntries] : n \in 0..MaxRegistry } :
        \A i, j \in DOMAIN r : i # j => r[i].key # r[j].key }

MatcherNames ==
    {S_Rib_12, S_Intermediate_Ribs, S_Intermediate_Ribs_2, S_rib_3, S_Front_Spar_Splice,
     S_Bracket_7, S_Rib}

MatcherInit == EngineIdle /\ MatcherIdle /\ RunIdle /\ ExcelIdle /\ OrganizerIdle

\* find_registry_config(component_name, registry) is called and returns
CallFindRegistryConfig ==
    \E component_name \in MatcherNames, registry \in Registries :
        /\ m_pc = "idle"
        /\ m_pc' = "returned"
        /\ m_name' = component_name
        /\ m_registry' = registry
        /\ m_result' = find_registry_config(component_name, registry)
        /\ UNCHANGED <<engVars, runVars, xlVars, orgVars>>

MatcherNext == CallFindRegistryConfig

SpecMatcher == MatcherInit /\ [][MatcherNext]_vars

\* key i of the registry matches the name as a pattern
KeyOccurs(i) == Contains(Lower(m_registry[i].key), Lower(m_name))

----------------------------------------------------------------------------
(* Spreadsheet backend: margin_calc_excel.py, calculate_with_excel.          *)
(* The function is followed step by step, because workbooks and the          *)
(* application are opened and released in between.  What the file system,    *)
(* the application and the workbooks answer is chosen by the environment.    *)

S_Skin == <<"S", "k", "i", "n">>

\* a calculator_registry.json: patterns for panels (row-by-row driver), for ribs
\* (summary driver), for clips, and one entry whose driver is neither
RunRegistry == <<
    [key |-> S_Skin, val |-> [filename |-> "panel_calc.xlsx",  driver |-> "excel_simple"]],
    [key |-> S_Rib,  val |-> [filename |-> "rib_master.xlsx",  driver |-> "excel_master"]],
    [key |-> S_Clip, val |-> [filename |-> "clip_calc.xlsx",   driver |-> "excel_simple"]],
    [key |-> S_Spar, val |-> [filename |-> "spar_legacy.xlsx", driver |-> "excel_macro"]] >>

\* what load_registry returns: {} when the file is absent, else its content
RegistryLoads == {<<>>, RunRegistry}

\* what reading a cell gives: None (empty), a float (in hundredths) or text
CellValues ==
    { [t |-> "None"], [t |-> "float", v |-> 50], [t |-> "float", v |-> 100],
      [t |-> "float", v |-> 150], [t |-> "str", s |-> "#N/A"] }

\* what the critical-location cell gives
LocationValues == { [t |-> "str", s |-> "Bay 4"], [t |-> "None"] }

\* the load cases the summary driver writes (line 116)
MasterCases == {LcKey(i) : i \in 1..5}

TypeName(ti) == IF ti = 1 THEN "Elements" ELSE "Freebodies"

\* results[comp_type].items(), in order
CompsOf(results, ti) == IF ti = 1 THEN results.Elements ELSE results.Freebodies

\* final_output[comp_type][component_name] = value
PutResult(out, ti, component_name, value) ==
    IF ti = 1
    THEN [out EXCEPT !.Elements = Append(@, [key |-> component_name, val |-> value])]
    ELSE [out EXCEPT !.Freebodies = Append(@, [key |-> component_name, val |-> value])]

\* comp_data.get("Forces", comp_data.get("Loads", {}))
LoadsMap(comp_data) ==
    IF "Forces" \in DOMAIN comp_data THEN comp_data.Forces
    ELSE IF "Loads" \in DOMAIN comp_data THEN comp_data.Loads
    ELSE <<>>

\* status of the row-by-row driver (lines 94-96)
SimpleStatus(rf) ==
    IF rf.t = "None" THEN "ERROR"
    ELSE IF rf.t = "float" /\ rf.v < 100 THEN "FAIL"
    ELSE "PASS"

\* status of the summary driver (line 121)
MasterStatus(min_rf) == IF min_rf.t = "float" /\ min_rf.v > 100 THEN "PASS" ELSE "FAIL"

\* comp_results of the row-by-row driver, given what each read returned
SimpleResultsMutant(loads_map, reads) ==
    [lc_id \in DOMAIN loads_map |->
        IF IsStr(loads_map[lc_id])
        THEN [Method |-> "Excel_Simple", RF |-> [t |-> "None"], Status |-> "ERROR"]
        ELSE [Method |-> "Excel_Simple", RF |-> reads[lc_id],
              Status |-> SimpleStatus(reads[lc_id])]]
SimpleResults(loads_map, reads) ==
    [lc_id \in {k \in DOMAIN loads_map : ~IsStr(loads_map[k])} |->
        [Method |-> "Excel_Simple", RF |-> reads[lc_id], Status |-> SimpleStatus(reads[lc_id])]]

\* comp_results of the summary driver
MasterResults(min_rf, location) ==
    [lc \in MasterCases |->
        [Method |-> "Excel_Master", RF |-> min_rf,
         Note |-> [text |-> "Critical Loc: ", loc |-> location],
         Status |-> MasterStatus(min_rf)]]

\* an exception e, with str(e)
Exc(text) == [msg |-> text]

\* the workbooks open after the finally clause of line 126-128 ran wb.close()
BooksAfterCloseMutant(books, book, exc) == IF exc = None THEN books \ {book} ELSE books
BooksAfterClose(books, book, exc) == books \ {book}

\* the component in hand and its config
CurComp == CompsOf(extracted, xl_ti)[xl_ci]

CurConfig == find_registry_config(CurComp.key, xl_registry)

InLoop == xl_pc = "lookup" /\ xl_ci <= Len(CompsOf(extracted, xl_ti))

\* lines 44-49: the registry is loaded; without one the function returns at once
XLLoadRegistry ==
    /\ xl_pc = "load_registry"
    /\ \E loaded \in RegistryLoads :
        /\ xl_registry' = loaded
        /\ IF loaded = <<>>
           THEN /\ xl_ret' = [Error |-> "Calculator Registry Missing"]
                /\ xl_pc' = "returned"
                /\ UNCHANGED final_output
           ELSE /\ final_output' = EmptyResults
                /\ xl_pc' = "create_app"
                /\ UNCHANGED xl_ret
    /\ UNCHANGED <<app, open_books, wb, xl_ti, xl_ci, xl_exc, opened_for, missing_for, found_for>>
    /\ UNCHANGED <<engVars, matchVars, runVars, orgVars>>

\* line 51: the application is started; it is outside the try statement, so a
\* failure to start it leaves the function as an exception
XLCreateApp ==
    /\ xl_pc = "create_app"
    /\ \E started \in BOOLEAN :
        IF started
        THEN app' = "running" /\ xl_pc' = "lookup" /\ xl_ti' = 1 /\ xl_ci' = 1
        ELSE xl_pc' = "raised" /\ UNCHANGED <<app, xl_ti, xl_ci>>
    /\ UNCHANGED <<xl_registry, open_books, wb, final_output, xl_exc, xl_ret,
                   opened_for, missing_for, found_for>>
    /\ UNCHANGED <<engVars, matchVars, runVars, orgVars>>

\* lines 54-57: the loops move on to the next comp_type, or end
XLAdvance ==
    /\ xl_pc = "lookup"
    /\ xl_ci > Len(CompsOf(extracted, xl_ti))
    /\ IF xl_ti = 1
       THEN xl_ti' = 2 /\ xl_ci' = 1 /\ UNCHANGED xl_pc
       ELSE xl_pc' = "quit" /\ UNCHANGED <<xl_ti, xl_ci>>
    /\ UNCHANGED <<xl_registry, app, open_books, wb, final_output, xl_exc, xl_ret,
                   opened_for, missing_for, found_for>>
    /\ UNCHANGED <<engVars, matchVars, runVars, orgVars>>

\* lines 60-64: no calculator for the component, it is skipped
XLSkipNoConfig ==
    /\ InLoop
    /\ Falsy(CurConfig)
    /\ xl_ci' = xl_ci + 1
    /\ UNCHANGED <<xl_pc, xl_registry, app, open_books, wb, xl_ti, final_output, xl_exc,
                   xl_ret, opened_for, missing_for, found_for>>
    /\ UNCHANGED <<engVars, matchVars, runVars, orgVars>>

\* lines 66-70: the workbook file does not exist
XLFileMissing ==
    /\ InLoop
    /\ ~Falsy(CurConfig)
    /\ final_output' = PutResult(final_output, xl_ti, CurComp.key,
                                 [Error |-> "Excel file not found"])
    /\ missing_for' = missing_for \cup {CurComp.key}
    /\ xl_ci' = xl_ci + 1
    /\ UNCHANGED <<xl_pc, xl_registry, app, open_books, wb, xl_ti, xl_exc, xl_ret,
                   opened_for, found_for>>
    /\ UNCHANGED <<engVars, matchVars, runVars, orgVars>>

\* lines 66-67: the workbook file exists
XLFileFound ==
    /\ InLoop
    /\ ~Falsy(CurConfig)
    /\ found_for' = found_for \cup {CurComp.key}
    /\ xl_pc' = "open"
    /\ UNCHANGED <<xl_registry, app, open_books, wb, xl_ti, xl_ci, final_output, xl_exc,
                   xl_ret, opened_for, missing_for>>
    /\ UNCHANGED <<engVars, matchVars, runVars, orgVars>>

\* line 73: app.books.open succeeds
XLOpen ==
    /\ xl_pc = "open"
    /\ LET book == [comp |-> CurComp.key, file |-> CurConfig.filename]
       IN  /\ wb' = book
           /\ open_books' = open_books \cup {book}
    /\ opened_for' = opened_for \cup {CurComp.key}
    /\ xl_pc' = "drive"
    /\ UNCHANGED <<xl_registry, app, xl_ti, xl_ci, final_output, xl_exc, xl_ret,
                   missing_for, found_for>>
    /\ UNCHANGED <<engVars, matchVars, runVars, orgVars>>

\* line 73: app.books.open raises; the inner try is not yet entered
XLOpenRaises ==
    /\ xl_pc = "open"
    /\ xl_exc' = Exc("cannot open workbook")
    /\ xl_pc' = "except"
    /\ UNCHANGED <<xl_registry, app, open_books, wb, xl_ti, xl_ci, final_output, xl_ret,
                   opened_for, missing_for, found_for>>
    /\ UNCHANGED <<engVars, matchVars, runVars, orgVars>>

\* lines 77-104: the row-by-row driver writes the inputs of every numeric load
\* case and reads the reserve factor back
XLDriveSimple ==
    /\ xl_pc = "drive"
    /\ CurConfig.driver = "excel_simple"
    /\ LET loads_map == LoadsMap(CurComp.val)
           numeric   == {k \in DOMAIN loads_map : ~IsStr(loads_map[k])}
       IN  \E reads \in [numeric -> CellValues] :
               final_output' = PutResult(final_output, xl_ti, CurComp.key,
                                         SimpleResults(loads_map, reads))
    /\ xl_pc' = "close"
    /\ UNCHANGED <<xl_registry, app, open_books, wb, xl_ti, xl_ci, xl_exc, xl_ret,
                   opened_for, missing_for, found_for>>
    /\ UNCHANGED <<engVars, matchVars, runVars, orgVars>>

\* lines 107-124: the summary driver reads one reserve factor and its location
XLDriveMaster ==
    /\ xl_pc = "drive"
    /\ CurConfig.driver = "excel_master"
    /\ \E min_rf \in CellValues, location \in LocationValues :
           final_output' = PutResult(final_output, xl_ti, CurComp.key,
                                     MasterResults(min_rf, location))
    /\ xl_pc' = "close"
    /\ UNCHANGED <<xl_registry, app, open_books, wb, xl_ti, xl_ci, xl_exc, xl_ret,
                   opened_for, missing_for, found_for>>
    /\ UNCHANGED <<engVars, matchVars, runVars, orgVars>>

\* lines 77, 107: a driver that is neither: nothing is written or read
XLDriveOther ==
    /\ xl_pc = "drive"
    /\ CurConfig.driver \notin {"excel_simple", "excel_master"}
    /\ xl_pc' = "close"
    /\ UNCHANGED <<xl_registry, app, open_books, wb, xl_ti, xl_ci, final_output, xl_exc,
                   xl_ret, opened_for, missing_for, found_for>>
    /\ UNCHANGED <<engVars, matchVars, runVars, orgVars>>

\* lines 78, 89, 92, 108-110: the sheet is absent, or a write or read raises
XLDriveRaises ==
    /\ xl_pc = "drive"
    /\ CurConfig.driver \in {"excel_simple", "excel_master"}
    /\ xl_exc' = Exc("sheet not found")
    /\ xl_pc' = "close"
    /\ UNCHANGED <<xl_registry, app, open_books, wb, xl_ti, xl_ci, final_output, xl_ret,
                   opened_for, missing_for, found_for>>
    /\ UNCHANGED <<engVars, matchVars, runVars, orgVars>>

\* lines 126-128: finally wb.close(); an exception in flight goes on to line 130
XLClose ==
    /\ xl_pc = "close"
    /\ open_books' = BooksAfterClose(open_books, wb, xl_exc)
    /\ wb' = None
    /\ IF xl_exc = None
       THEN xl_pc' = "lookup" /\ xl_ci' = xl_ci + 1
       ELSE xl_pc' = "except" /\ UNCHANGED xl_ci
    /\ UNCHANGED <<xl_registry, app, xl_ti, final_output, xl_exc, xl_ret,
                   opened_for, missing_for, found_for>>
    /\ UNCHANGED <<engVars, matchVars, runVars, orgVars>>

\* lines 130-132: the outer handler catches the exception of any component
XLExceptMutant ==
    /\ xl_pc = "except"
    /\ xl_pc' = "returned"
    /\ xl_ret' = [Error |-> xl_exc.msg]
    /\ UNCHANGED <<xl_registry, app, open_books, wb, xl_ti, xl_ci, final_output, xl_exc,
                   opened_for, missing_for, found_for>>
    /\ UNCHANGED <<engVars, matchVars, runVars, orgVars>>
XLExcept ==
    /\ xl_pc = "except"
    /\ xl_pc' = "quit"
    /\ UNCHANGED <<xl_registry, app, open_books, wb, xl_ti, xl_ci, final_output, xl_exc,
                   xl_ret, opened_for, missing_for, found_for>>
    /\ UNCHANGED <<engVars, matchVars, runVars, orgVars>>

\* lines 132-139: finally app.quit(), whose own failure is swallowed; then the
\* function returns {"Error": str(e)} after an exception, else final_output
XLQuit ==
    /\ xl_pc = "quit"
    /\ \E quit_ok \in BOOLEAN :
        IF quit_ok
        THEN app' = "quit" /\ open_books' = {}
        ELSE app' = "quit_failed" /\ UNCHANGED open_books
    /\ xl_ret' = IF xl_exc = None THEN final_output ELSE [Error |-> xl_exc.msg]
    /\ xl_pc' = "returned"
    /\ UNCHANGED <<xl_registry, wb, xl_ti, xl_ci, final_output, xl_exc,
                   opened_for, missing_for, found_for>>
    /\ UNCHANGED <<engVars, matchVars, runVars, orgVars>>

ExcelNext ==
    \/ XLLoadRegistry \/ XLCreateApp \/ XLAdvance
    \/ XLSkipNoConfig \/ XLFileMissing \/ XLFileFound
    \/ XLOpen \/ XLOpenRaises
    \/ XLDriveSimple \/ XLDriveMaster \/ XLDriveOther \/ XLDriveRaises
    \/ XLClose \/ XLExcept \/ XLQuit

----------------------------------------------------------------------------
(* The analysis request: main.py, run_full_analysis *)

S_panel == <<"p", "a", "n", "e", "l">>
S_skin == <<"s", "k", "i", "n">>
S_clip == <<"c", "l", "i", "p">>

MapEntry(name, ids, type) == [key |-> name, val |-> [ids |-> ids, type |-> type]]

\* the built-in demonstration mapping (lines 110-113)
FallbackMapping == <<
    MapEntry(S_Upper_Skin_Panel, <<12090>>, "panel"),
    MapEntry(S_Intermediate_Ribs, <<2710102>>, "freebody") >>

\* mappings a model_mapping.json may hold
Mappings ==
    { << MapEntry(S_Flap_Shear_Clip, <<501, 502>>, "freebody"),
         MapEntry(S_Upper_Skin_Panel, <<12090>>, "panel") >>,
      << MapEntry(S_Intermediate_Ribs, <<2710102>>, "panel"),
         MapEntry(S_Rib_12, <<>>, "panel"),
         MapEntry(S_Upper_Skin_Panel, <<12090>>, "panel") >>,
      << MapEntry(S_Bracket_7, <<77>>, "panel"),
         MapEntry(S_Intermediate_Ribs, <<2710102>>, "freebody") >>,
      << MapEntry(S_Front_Spar_Splice, <<2710102>>, "panel"),
         MapEntry(S_Flap_Shear_Clip, <<501>>, "panel") >>,
      << MapEntry(S_Rib_12, <<88>>, "panel"),
         MapEntry(S_Intermediate_Ribs, <<2710102>>, "freebody") >>,
      << [key |-> S_Upper_Skin_Panel_2, val |-> [type |-> "panel"]],
         MapEntry(S_Aft_Spar_Web, <<301, 302>>, "panel") >> }

\* what load_mapping returns: the mapping of the file, or nothing
MappingLoads == Mappings \cup {<<>>}

\* the request bodies: a method and the list of load cases 1..k
Requests ==
    { [calculation_method |-> m, load_cases |-> [i \in 1..k |-> LcKey(i)]] :
        m \in {"python", "excel", "csv"}, k \in 1..MaxLoadCase }

\* info.get('ids') is non-empty (line 118)
HasIds(entry) == "ids" \in DOMAIN entry.val /\ entry.val.ids # <<>>

\* the name sends the entry to the Elements bucket (line 121)
IsElementName(name) ==
    \/ Contains(S_panel, Lower(name))
    \/ Contains(S_skin, Lower(name))
    \/ Contains(S_clip, Lower(name))

RoutedToElementsMutant(entry) == HasIds(entry) /\ entry.val.type = "panel"
RoutedToElements(entry) == HasIds(entry) /\ IsElementName(entry.key)

RoutedToFreebodies(entry) == HasIds(entry) /\ ~IsElementName(entry.key)

\* the extractor call made for an entry with ids: its first id (line 119) goes
\* to the extractor of its bucket (lines 123, 127)
ExtractCall(entry) ==
    [name |-> entry.key,
     fn   |-> IF RoutedToElements(entry) THEN "extract_shell_forces"
              ELSE "extract_freebody_loads",
     id   |-> entry.val.ids[1]]

Range(seq) == {seq[i] : i \in DOMAIN seq}

\* what extract_shell_forces can return for the requested load cases
ShellOutcomes(load_cases) ==
    [Range(load_cases) ->
        {ShellForce(Num(50, 1), Num(7, 1), Num(200, 1)), ErrStr("Load Case missing")}]

\* what extract_freebody_loads can return for the requested load cases
FreebodyOutcomes(load_cases) ==
    [Range(load_cases) ->
        {Freebody(Num(30000, 1), Num(40000, 1), Num(0, 1), Num(0, 1), Num(0, 1), Num(0, 1)),
         ErrStr("Load Case missing")}]

RunInit ==
    /\ pc = "start"
    /\ request \in Requests
    /\ mapping_data = <<>>
    /\ extracted = EmptyResults
    /\ final_results = None
    /\ saved = None
    /\ response = None
    /\ extract_calls = <<>>
    /\ EngineIdle /\ MatcherIdle /\ ExcelIdle /\ OrganizerIdle

\* lines 98-100: the OP2 file is not there, the request ends with status 404
RejectMissingOp2 ==
    /\ pc = "start"
    /\ pc' = "http404"
    /\ UNCHANGED <<request, mapping_data, extracted, final_results, saved, response,
                   extract_calls>>
    /\ UNCHANGED <<engVars, matchVars, xlVars, orgVars>>

\* lines 102-128: the mapping is loaded (the demonstration mapping when there
\* is none) and the loads of every entry with ids are extracted into its bucket
Extract ==
    /\ pc = "start"
    /\ \E loaded \in MappingLoads :
        LET mapping == IF loaded = <<>> THEN FallbackMapping ELSE loaded
            elems   == SelectSeq(mapping, RoutedToElements)
            fbs     == SelectSeq(mapping, RoutedToFreebodies)
            called  == SelectSeq(mapping, HasIds)
        IN  \E forces \in [DOMAIN elems -> ShellOutcomes(request.load_cases)],
               loads \in [DOMAIN fbs -> FreebodyOutcomes(request.load_cases)] :
                /\ mapping_data' = mapping
                /\ extract_calls' = [i \in DOMAIN called |-> ExtractCall(called[i])]
                /\ extracted' =
                     [Elements   |-> [i \in DOMAIN elems |->
                                        [key |-> elems[i].key, val |-> [Forces |-> forces[i]]]],
                      Freebodies |-> [i \in DOMAIN fbs |->
                                        [key |-> fbs[i].key, val |-> [Loads |-> loads[i]]]]]
    /\ pc' = "calculate"
    /\ UNCHANGED <<request, final_results, saved, response>>
    /\ UNCHANGED <<engVars, matchVars, xlVars, orgVars>>

\* lines 131-137: the native backend
CalculatePython ==
    /\ pc = "calculate"
    /\ request.calculation_method = "python"
    /\ final_results' =
         [Elements   |-> [i \in DOMAIN extracted.Elements |->
                            [key |-> extracted.Elements[i].key,
                             val |-> calculate_panel_margins(extracted.Elements[i].key,
                                                             extracted.Elements[i].val.Forces)]],
          Freebodies |-> [i \in DOMAIN extracted.Freebodies |->
                            [key |-> extracted.Freebodies[i].key,
                             val |-> calculate_joint_margins(extracted.Freebodies[i].key,
                                                             extracted.Freebodies[i].val.Loads)]]]
    /\ pc' = "save"
    /\ UNCHANGED <<request, mapping_data, extracted, saved, response, extract_calls>>
    /\ UNCHANGED <<engVars, matchVars, xlVars, orgVars>>

\* lines 139-140: the spreadsheet backend is called
CalculateExcel ==
    /\ pc = "calculate"
    /\ request.calculation_method = "excel"
    /\ pc' = "in_excel"
    /\ xl_pc' = "load_registry"
    /\ UNCHANGED <<request, mapping_data, extracted, final_results, saved, response,
                   extract_calls>>
    /\ UNCHANGED <<xl_registry, app, open_books, wb, xl_ti, xl_ci, final_output, xl_exc,
                   xl_ret, opened_for, missing_for, found_for>>
    /\ UNCHANGED <<engVars, matchVars, orgVars>>

\* line 140: the spreadsheet backend returned
ExcelReturns ==
    /\ pc = "in_excel"
    /\ xl_pc = "returned"
    /\ final_results' = xl_ret
    /\ pc' = "save"
    /\ UNCHANGED <<request, mapping_data, extracted, saved, response, extract_calls>>
    /\ UNCHANGED <<engVars, matchVars, xlVars, orgVars>>

\* line 140: the spreadsheet backend raised; the request ends with status 500
ExcelRaises ==
    /\ pc = "in_excel"
    /\ xl_pc = "raised"
    /\ pc' = "http500"
    /\ UNCHANGED <<request, mapping_data, extracted, final_results, saved, response,
                   extract_calls>>
    /\ UNCHANGED <<engVars, matchVars, xlVars, orgVars>>

\* lines 131-140: a method that is neither "python" nor "excel"
CalculateNothingMutant ==
    /\ pc = "calculate"
    /\ request.calculation_method \notin {"python", "excel"}
    /\ pc' = "http500"
    /\ UNCHANGED <<request, mapping_data, extracted, final_results, saved, response,
                   extract_calls>>
    /\ UNCHANGED <<engVars, matchVars, xlVars, orgVars>>
CalculateNothing ==
    /\ pc = "calculate"
    /\ request.calculation_method \notin {"python", "excel"}
    /\ final_results' = EmptyResults
    /\ pc' = "save"
    /\ UNCHANGED <<request, mapping_data, extracted, saved, response, extract_calls>>
    /\ UNCHANGED <<engVars, matchVars, xlVars, orgVars>>

\* lines 144-152: the results are written to the results file; a failure to
\* write is printed and the handler goes on
Save ==
    /\ pc = "save"
    /\ \E written \in BOOLEAN : saved' = IF written THEN final_results ELSE saved
    /\ pc' = "respond"
    /\ UNCHANGED <<request, mapping_data, extracted, final_results, response, extract_calls>>
    /\ UNCHANGED <<engVars, matchVars, xlVars, orgVars>>

\* lines 154-159
Respond ==
    /\ pc = "respond"
    /\ response' = [status  |-> "Analysis Complete",
                    method  |-> request.calculation_method,
                    results |-> final_results]
    /\ pc' = "done"
    /\ UNCHANGED <<request, mapping_data, extracted, final_results, saved, extract_calls>>
    /\ UNCHANGED <<engVars, matchVars, xlVars, orgVars>>

Next ==
    \/ RejectMissingOp2 \/ Extract
    \/ CalculatePython \/ CalculateExcel \/ ExcelReturns \/ ExcelRaises \/ CalculateNothing
    \/ Save \/ Respond
    \/ ExcelNext

Init == RunInit

Spec == Init /\ [][Next]_vars

----------------------------------------------------------------------------
(* Claims on the results of a run *)

ResultKeys == {"Elements", "Freebodies"}

\* the result has the two buckets at its top level
IsBucketed(results) == DOMAIN results = ResultKeys

\* a component's entry is an error entry, not a dict of load cases
IsErrorEntry(entry) == DOMAIN entry = {"Error"}

\* P holds of every per-load-case record of the results
AllRecords(results, P(_)) ==
    IsBucketed(results) =>
        \A b \in ResultKeys : \A i \in DOMAIN results[b] :
            LET entry == results[b][i].val
            IN  ~IsErrorEntry(entry) => \A lc \in DOMAIN entry : P(entry[lc])

\* the reserve factor of a record is a number
NumericRF(rec) == rec.Method = "Python_Native" \/ rec.RF.t = "float"

\* the reserve factor of a record, in hundredths
RFHundredths(rec) == IF rec.Method = "Python_Native" THEN rec.RF ELSE rec.RF.v

StatusFollowsRF(rec) ==
    NumericRF(rec) =>
        /\ "Status" \in DOMAIN rec
        /\ rec.Status = (IF RFHundredths(rec) < 100 THEN "FAIL" ELSE "PASS")

\* C3: every per-load-case record returned by a run, of the native panel and
\* joint functions and of both spreadsheet drivers, carries a status that is
\* "FAIL" exactly when its reserve factor is below 1.0 and "PASS" otherwise; a
\* reserve factor of exactly 1.0 is "PASS".
C3_StatusIffBelowOne ==
    pc = "done" => AllRecords(response.results, StatusFollowsRF)

\* the component has an entry in the bucket of the output
HasEntry(out, bucket, name) == IsBucketed(out) /\ HasKey(out[bucket], name)

EntryOf(out, bucket, name) == Lookup(out[bucket], name)

\* the positions of the components the run was given
Positions == {<<ti, ci>> : ti \in 1..2, ci \in 1..Len(mapping_data)}

IsComponent(pos) == pos[2] \in DOMAIN CompsOf(extracted, pos[1])

CompAt(pos) == CompsOf(extracted, pos[1])[pos[2]]

\* the component's calculator runs one of the two drivers
HasDriver(name) ==
    LET config == find_registry_config(name, xl_registry)
    IN  ~Falsy(config) /\ config.driver \in {"excel_simple", "excel_master"}

\* C6: in a spreadsheet run a component whose workbook file does not exist gets
\* exactly the entry {"Error": "Excel file not found"}, no workbook is opened
\* for it, and every other component of either bucket is still processed and
\* has its computed results in the output of the same run.
C6_MissingFileIsolated ==
    (pc = "in_excel" /\ xl_pc = "returned" /\ missing_for # {}) =>
        \A pos \in {q \in Positions : IsComponent(q)} :
            LET name   == CompAt(pos).key
                bucket == TypeName(pos[1])
            IN  IF name \in missing_for
                THEN /\ name \notin opened_for
                     /\ HasEntry(xl_ret, bucket, name)
                     /\ EntryOf(xl_ret, bucket, name) = [Error |-> "Excel file not found"]
                ELSE HasDriver(name) =>
                     /\ HasEntry(xl_ret, bucket, name)
                     /\ ~IsErrorEntry(EntryOf(xl_ret, bucket, name))

\* every entry of the first output is an entry of the second
KeepsEntries(before, after) ==
    /\ IsBucketed(after)
    /\ \A b \in ResultKeys : \A i \in DOMAIN before[b] :
           /\ HasKey(after[b], before[b][i].key)
           /\ Lookup(after[b], before[b][i].key) = before[b][i].val

\* C7: in a spreadsheet run a failure while opening, writing or reading one
\* component's workbook stays with that component: the output keeps the
\* results computed before, has {"Error": reason} for that component only, and
\* the components after it are processed.
C7_FailureConfined ==
    (pc = "in_excel" /\ xl_pc = "returned" /\ xl_exc # None) =>
        /\ KeepsEntries(final_output, xl_ret)
        /\ HasEntry(xl_ret, TypeName(xl_ti), CurComp.key)
        /\ EntryOf(xl_ret, TypeName(xl_ti), CurComp.key) = [Error |-> xl_exc.msg]
        /\ \A pos \in {q \in Positions : IsComponent(q)} :
               HasDriver(CompAt(pos).key) =>
                   CompAt(pos).key \in found_for \cup missing_for

\* C8: at most one workbook is open at any moment of a spreadsheet run: none is
\* open when the next component is looked up or its workbook opened, none
\* after an exception went through the finally clause, none when the run
\* returns; while a component is driven, its workbook is the only one open.
C8_OneWorkbook ==
    /\ Cardinality(open_books) <= 1
    /\ xl_pc \in {"lookup", "open", "except", "quit", "returned"} => open_books = {}
    /\ xl_pc \in {"drive", "close"} => open_books = {wb}

\* a run that opened two workbooks, the second one's sheet was absent, and
\* that returned with nothing open
C8_Witness ==
    /\ xl_pc = "returned"
    /\ xl_exc = Exc("sheet not found")
    /\ Cardinality(opened_for) = 2
    /\ open_books = {}

SchemaFields == {"Method", "Applied_Load", "Allowable", "RF", "Failure_Mode", "Status"}

HasSchemaFields(rec) == SchemaFields \subseteq DOMAIN rec

\* C9: the per-load-case records of the native backend and of both spreadsheet
\* drivers have the structure of the MarginResult schema: under its load-case
\* key each record carries method tag, applied load, allowable, reserve
\* factor, failure mode and status.
C9_SameStructure ==
    pc = "done" => AllRecords(response.results, HasSchemaFields)

\* C10: every run with method python or excel returns, and writes to the
\* results file, a result whose top-level keys are exactly "Elements" and
\* "Freebodies", also when the spreadsheet backend or its registry is not
\* available.
C10_TwoBuckets ==
    (pc = "done" /\ request.calculation_method \in {"python", "excel"}) =>
        /\ IsBucketed(response.results)
        /\ saved # None => IsBucketed(saved)

----------------------------------------------------------------------------
(* Chapter organizer: result_organizer.py, organize_results_into_chapters.   *)
(* A JSON value is a tree: a dict is the sequence of its entries [key, val]  *)
(* in insertion order, every key a text; a scalar is a leaf, the one entry   *)
(* whose key is the scalar's text and whose val is empty.  {} is <<>>.       *)

\* greatest number of components of a dict handed to the organizer
MaxComponents == 2

Entry(k, v) == [key |-> k, val |-> v]

Leaf(text) == <<Entry(text, <<>>)>>

\* the archetype tags (line 12) and their chapter titles (lines 15, 17)
S_Elements == <<"E", "l", "e", "m", "e", "n", "t", "s">>
S_Freebodies == <<"F", "r", "e", "e", "b", "o", "d", "i", "e", "s">>
T_Elements == <<"S", "t", "r", "u", "c", "t", "u", "r", "a", "l", " ", "E", "l", "e", "m", "e", "n", "t", "s", " ", "(", "P", "a", "n", "e", "l", "s", " ", "&", " ", "S", "h", "e", "l", "l", "s", ")">>
T_Freebodies == <<"J", "o", "i", "n", "t", "s", " ", "&", " ", "I", "n", "t", "e", "r", "f", "a", "c", "e", " ", "L", "o", "a", "d", "s">>

\* the chapter titles of the heuristic path (lines 29-42)
T_Skin == <<"S", "k", "i", "n", " ", "P", "a", "n", "e", "l", "s">>
T_Rib == <<"R", "i", "b", " ", "S", "t", "r", "u", "c", "t", "u", "r", "e">>
T_Spar == <<"S", "p", "a", "r", "s", " ", "&", " ", "W", "e", "b", "s">>
T_Fittings == <<"F", "i", "t", "t", "i", "n", "g", "s", " ", "&", " ", "J", "o", "i", "n", "t", "s">>
T_Stringers == <<"S", "t", "r", "i", "n", "g", "e", "r", "s", " ", "&", " ", "S", "t", "i", "f", "f", "e", "n", "e", "r", "s">>
T_Misc == <<"M", "i", "s", "c", "e", "l", "l", "a", "n", "e", "o", "u", "s", " ", "C", "o", "m", "p", "o", "n", "e", "n", "t", "s">>

\* the keywords of the heuristic path (lines 33-41)
K_skin == <<"s", "k", "i", "n">>
K_panel == <<"p", "a", "n", "e", "l">>
K_rib == <<"r", "i", "b">>
K_spar == <<"s", "p", "a", "r">>
K_web == <<"w", "e", "b">>
K_clip == <<"c", "l", "i", "p">>
K_splice == <<"s", "p", "l", "i", "c", "e">>
K_joint == <<"j", "o", "i", "n", "t">>
K_stringer == <<"s", "t", "r", "i", "n", "g", "e", "r">>
K_stiffener == <<"s", "t", "i", "f", "f", "e", "n", "e", "r">>

\* the characters of the texts of the model, in code-point order
CodeOrder ==
    <<" ", "&", "(", ")", ".", "0", "1", "2", "3", "4", "5", "6", "7", "8", "9",
      "A", "B", "C", "D", "E", "F", "G", "H", "I", "J", "K", "L", "M",
      "N", "O", "P", "Q", "R", "S", "T", "U", "V", "W", "X", "Y", "Z", "_",
      "a", "b", "c", "d", "e", "f", "g", "h", "i", "j", "k", "l", "m",
      "n", "o", "p", "q", "r", "s", "t", "u", "v", "w", "x", "y", "z">>

Ord(c) == CHOOSE i \in DOMAIN CodeOrder : CodeOrder[i] = c

\* a < b on str
RECURSIVE StrLess(_, _)
StrLess(a, b) ==
    IF a = <<>> THEN b # <<>>
    ELSE IF b = <<>> THEN FALSE
    ELSE IF Head(a) = Head(b) THEN StrLess(Tail(a), Tail(b))
    ELSE Ord(Head(a)) < Ord(Head(b))

\* d[k] = v on an insertion-ordered dict
DictSet(d, k, v) ==
    IF HasKey(d, k)
    THEN [i \in DOMAIN d |-> IF d[i].key = k THEN Entry(k, v) ELSE d[i]]
    ELSE Append(d, Entry(k, v))

\* the entry put at its place among entries sorted by key
InsertSorted(entry, sorted) ==
    LET k == Cardinality({i \in DOMAIN sorted : StrLess(sorted[i].key, entry.key)})
    IN  SubSeq(sorted, 1, k) \o <<entry>> \o SubSeq(sorted, k + 1, Len(sorted))

\* dict(sorted(d.items())) (line 52)
RECURSIVE SortedItems(_)
SortedItems(d) == IF d = <<>> THEN <<>> ELSE InsertSorted(Head(d), SortedItems(Tail(d)))

\* the tagged path (lines 14-18): each tag present is renamed to its title
TaggedReportMutant(raw_results) ==
    IF HasKey(raw_results, S_Elements)
    THEN <<Entry(T_Elements, Lookup(raw_results, S_Elements))>>
    ELSE <<Entry(T_Freebodies, Lookup(raw_results, S_Freebodies))>>
TaggedReport(raw_results) ==
    (IF HasKey(raw_results, S_Elements)
     THEN <<Entry(T_Elements, Lookup(raw_results, S_Elements))>> ELSE <<>>)
    \o
    (IF HasKey(raw_results, S_Freebodies)
     THEN <<Entry(T_Freebodies, Lookup(raw_results, S_Freebodies))>> ELSE <<>>)

\* the chapter of a lower-cased name (lines 29-42)
ChapterOfMutant(name_lower) ==
    IF Contains(K_rib, name_lower) THEN T_Rib
    ELSE IF Contains(K_skin, name_lower) \/ Contains(K_panel, name_lower) THEN T_Skin
    ELSE IF Contains(K_spar, name_lower) \/ Contains(K_web, name_lower) THEN T_Spar
    ELSE IF Contains(K_clip, name_lower) \/ Contains(K_splice, name_lower)
            \/ Contains(K_joint, name_lower) THEN T_Fittings
    ELSE IF Contains(K_stringer, name_lower) \/ Contains(K_stiffener, name_lower)
         THEN T_Stringers
    ELSE T_Misc
ChapterOf(name_lower) ==
    IF Contains(K_skin, name_lower) \/ Contains(K_panel, name_lower) THEN T_Skin
    ELSE IF Contains(K_rib, name_lower) THEN T_Rib
    ELSE IF Contains(K_spar, name_lower) \/ Contains(K_web, name_lower) THEN T_Spar
    ELSE IF Contains(K_clip, name_lower) \/ Contains(K_splice, name_lower)
            \/ Contains(K_joint, name_lower) THEN T_Fittings
    ELSE IF Contains(K_stringer, name_lower) \/ Contains(K_stiffener, name_lower)
         THEN T_Stringers
    ELSE T_Misc

\* lines 44-49: the chapter is created if new and the component added to it
AddComponent(report, comp_name, data) ==
    LET chapter_name == ChapterOf(Lower(comp_name))
        with_chapter == IF HasKey(report, chapter_name) THEN report
                        ELSE DictSet(report, chapter_name, <<>>)
    IN  DictSet(with_chapter, chapter_name,
                DictSet(Lookup(with_chapter, chapter_name), comp_name, data))

\* the loop of lines 25-49 over the items left, empty data skipped (line 26)
RECURSIVE ClassifyMutant(_, _)
ClassifyMutant(items, report) ==
    IF items = <<>> THEN report
    ELSE ClassifyMutant(Tail(items), AddComponent(report, Head(items).key, Head(items).val))
RECURSIVE Classify(_, _)
Classify(items, report) ==
    IF items = <<>> THEN report
    ELSE Classify(Tail(items),
                  IF Head(items).val = <<>> THEN report
                  ELSE AddComponent(report, Head(items).key, Head(items).val))

organize_results_into_chapters(raw_results) ==
    IF HasKey(raw_results, S_Elements) \/ HasKey(raw_results, S_Freebodies)
    THEN TaggedReport(raw_results)
    ELSE SortedItems(Classify(raw_results, <<>>))

----------------------------------------------------------------------------
(* The organizer called on its inputs, and once more on its own output *)

S_Rib_Panel_3 == <<"R", "i", "b", "_", "P", "a", "n", "e", "l", "_", "3">>
S_Stringer_5 == <<"S", "t", "r", "i", "n", "g", "e", "r", "_", "5">>
S_STIFFENER_2 == <<"S", "T", "I", "F", "F", "E", "N", "E", "R", "_", "2">>

S_RF == <<"R", "F">>

\* the results of a component: {"1": {"RF": 0.75}}, {"1": {"RF": 1.2}, "2": {"RF": 99.99}}
ResultsA == <<Entry(<<"1">>, <<Entry(S_RF, Leaf(<<"0", ".", "7", "5">>))>>)>>

ResultsB ==
    <<Entry(<<"1">>, <<Entry(S_RF, Leaf(<<"1", ".", "2">>))>>),
      Entry(<<"2">>, <<Entry(S_RF, Leaf(<<"9", "9", ".", "9", "9">>))>>)>>

\* what a component may carry: results, or nothing
ComponentData == {ResultsA, ResultsB, <<>>}

\* component names of a flat result set
FlatNames ==
    {S_Upper_Skin_Panel, S_Rib_Panel_3, S_Rib_12, S_Aft_Spar_Web, S_Front_Spar_Splice,
     S_Flap_Shear_Clip, S_Stringer_5, S_STIFFENER_2, S_Bracket_7}

\* component names under a tag
BucketNames == {S_Upper_Skin_Panel, S_Intermediate_Ribs, S_Bracket_7}

\* the dicts of at most MaxComponents components, in every order
ComponentDicts(names, datas) ==
    UNION { { d \in [1..n -> [key : names, val : datas]] :
                \A i, j \in 1..n : i # j => d[i].key # d[j].key } :
            n \in 0..MaxComponents }

\* results that carry one or both tags, in either order, also beside a
\* component that is under no tag
TaggedInputs ==
    LET buckets == ComponentDicts(BucketNames, {ResultsA, <<>>})
        stray   == {<<>>, <<Entry(S_Rib_12, ResultsA)>>}
    IN  UNION { { <<Entry(S_Elements, e)>> \o x,
                  <<Entry(S_Freebodies, e)>> \o x,
                  <<Entry(S_Elements, e), Entry(S_Freebodies, f)>> \o x,
                  <<Entry(S_Freebodies, f), Entry(S_Elements, e)>> \o x } :
                e \in buckets, f \in buckets, x \in stray }

FlatInputs == ComponentDicts(FlatNames, ComponentData)

OrganizerInit ==
    /\ OrganizerIdle
    /\ EngineIdle /\ MatcherIdle /\ RunIdle /\ ExcelIdle

\* organize_results_into_chapters(raw_results) is called and returns
Organize ==
    /\ org_pc = "idle"
    /\ \E raw_results \in TaggedInputs \cup FlatInputs :
        /\ org_in' = raw_results
        /\ org_out' = organize_results_into_chapters(raw_results)
    /\ org_pc' = "organized"
    /\ UNCHANGED org_again
    /\ UNCHANGED <<engVars, matchVars, runVars, xlVars>>

\* the report is passed to organize_results_into_chapters again
Reorganize ==
    /\ org_pc = "organized"
    /\ org_pc' = "reorganized"
    /\ org_again' = organize_results_into_chapters(org_out)
    /\ UNCHANGED <<org_in, org_out>>
    /\ UNCHANGED <<engVars, matchVars, runVars, xlVars>>

OrganizerNext == Organize \/ Reorganize

SpecOrganizer == OrganizerInit /\ [][OrganizerNext]_vars

----------------------------------------------------------------------------
(* Properties of the organizer *)

\* the input carried a tag
TaggedIn == HasKey(org_in, S_Elements) \/ HasKey(org_in, S_Freebodies)

\* the same values under the keys of one report as under the keys of the other
SameChapterContents(r1, r2) ==
    /\ Len(r1) = Len(r2)
    /\ \A i \in DOMAIN r1 : \E j \in DOMAIN r2 : r2[j].val = r1[i].val
    /\ \A j \in DOMAIN r2 : \E i \in DOMAIN r1 : r1[i].val = r2[j].val

\* C11: the organizer is idempotent on tagged input: organizing organize(x)
\* again gives the same chapters with the same component-to-results mappings,
\* up to the titles, with no further nesting level and no component lost or
\* moved.
C11_Idempotent ==
    (org_pc = "reorganized" /\ TaggedIn) => SameChapterContents(org_out, org_again)

\* the keyword groups in their order, each with its chapter title
KeywordGroups ==
    << [words |-> {K_skin, K_panel},             title |-> T_Skin],
       [words |-> {K_rib},                       title |-> T_Rib],
       [words |-> {K_spar, K_web},               title |-> T_Spar],
       [words |-> {K_clip, K_splice, K_joint},   title |-> T_Fittings],
       [words |-> {K_stringer, K_stiffener},     title |-> T_Stringers] >>

\* the groups a keyword of which occurs in the name, case-insensitively
GroupHits(name) ==
    {g \in DOMAIN KeywordGroups : \E w \in KeywordGroups[g].words : Contains(w, Lower(name))}

\* the chapter of the first such group, or the miscellaneous chapter
ExpectedChapter(name) ==
    IF GroupHits(name) = {} THEN T_Misc ELSE KeywordGroups[MinOf(GroupHits(name))].title

\* the chapters of the report in which the name is a component
ChaptersWith(report, name) == {report[i].key : i \in {j \in DOMAIN report : HasKey(report[j].val, name)}}

\* the component is in that chapter, with that data, and in no other
PlacedIn(report, name, data, title) ==
    /\ ChaptersWith(report, name) = {title}
    /\ Lookup(Lookup(report, title), name) = data

SortedByTitle(report) ==
    \A i \in 1..(Len(report) - 1) : StrLess(report[i].key, report[i + 1].key)

\* every component of every chapter is a component of the input
OnlyInputComponents(report, raw) ==
    \A i \in DOMAIN report : \A j \in DOMAIN report[i].val : HasKey(raw, report[i].val[j].key)

\* C12 as stated: on the heuristic path each component is placed in the chapter
\* of the first keyword group (skin/panel, rib, spar/web, clip/splice/joint,
\* stringer/stiffener) that occurs case-insensitively in its name, or in
\* "Miscellaneous Components", and the chapters are in alphabetical order of
\* their titles.
C12_EachComponentPlaced ==
    (org_pc # "idle" /\ ~TaggedIn) =>
        /\ \A i \in DOMAIN org_in :
               PlacedIn(org_out, org_in[i].key, org_in[i].val, ExpectedChapter(org_in[i].key))
        /\ SortedByTitle(org_out)

\* C12 amended: on the heuristic path each component whose data is not empty
\* is placed in the chapter of the first keyword group that occurs
\* case-insensitively in its name, or in "Miscellaneous Components"; a
\* component whose data is empty is left out; the chapters hold nothing else
\* and are in alphabetical order of their titles.
C12_NonEmptyComponentPlaced ==
    (org_pc # "idle" /\ ~TaggedIn) =>
        /\ \A i \in DOMAIN org_in :
               IF org_in[i].val = <<>>
               THEN ChaptersWith(org_out, org_in[i].key) = {}
               ELSE PlacedIn(org_out, org_in[i].key, org_in[i].val,
                             ExpectedChapter(org_in[i].key))
        /\ OnlyInputComponents(org_out, org_in)
        /\ \A i \in DOMAIN org_out : org_out[i].val # <<>>
        /\ SortedByTitle(org_out)

\* a name with both "rib" and "panel" went to "Skin Panels", and the chapters
\* came out in title order, not in the order the components were met
C12_Witness ==
    /\ org_pc = "organized"
    /\ org_in = <<Entry(S_Rib_Panel_3, ResultsA), Entry(S_Rib_12, ResultsB)>>
    /\ org_out = <<Entry(T_Rib, <<Entry(S_Rib_12, ResultsB)>>),
                   Entry(T_Skin, <<Entry(S_Rib_Panel_3, ResultsA)>>)>>

----------------------------------------------------------------------------
(* Further properties of the native engine and of the run *)

\* the name is no key of the table and holds none of the function's patterns
NoAllowableMatch(fn, name) ==
    /\ ~HasKey(ALLOWABLES, name)
    /\ IF fn = "panel"
       THEN ~Contains(S_Rib, name) /\ ~Contains(S_Box, name)
       ELSE ~Contains(S_Clip, name) /\ ~Contains(S_Spar, name)

\* C14: for a name that matches no allowable entry by key or by pattern the
\* native functions return (they do not raise) one record for every load case
\* with a numeric record, computed with the generic panel default (100/100)
\* in the panel function and with Default_Joint in the joint function; the
\* strengths resolved are never empty.
C14_DefaultForUnmatched ==
    (eng_pc = "returned" /\ NoAllowableMatch(eng_fn, eng_name)) =>
        /\ DOMAIN eng_result = NumericCases
        /\ \A lc \in NumericCases :
               eng_result[lc].Allowable =
                   IF eng_fn = "panel" THEN 100 ELSE Lookup(ALLOWABLES, S_Default_Joint).Shear
        /\ DOMAIN (IF eng_fn = "panel" THEN PanelAllowables(eng_name)
                   ELSE JointAllowables(eng_name)) # {}

\* a joint call for a name without any match, one load case numeric and one an
\* error marker
C14_Witness ==
    /\ JointReturned
    /\ eng_name = S_Bracket_7
    /\ NumericCases # {}
    /\ NumericCases # DOMAIN eng_loads
    /\ \A lc \in NumericCases : eng_result[lc].Allowable = 25000

\* the load cases of a load dictionary whose record is numeric
NumericKeys(loads_map) == {k \in DOMAIN loads_map : ~IsStr(loads_map[k])}

\* the component's calculator runs the row-by-row driver
HasSimpleDriver(name) ==
    LET config == find_registry_config(name, xl_registry)
    IN  ~Falsy(config) /\ config.driver = "excel_simple"

\* C15: in the native functions and in the row-by-row spreadsheet driver a
\* load case whose entry is an error marker is skipped without raising: the
\* load-case keys of a component's result are exactly the input load cases
\* with a numeric record, so no placeholder record stands for a skipped one.
C15_ErrorMarkersSkipped ==
    (pc \in {"save", "respond", "done"} /\ IsBucketed(final_results)) =>
        \A pos \in {q \in Positions : IsComponent(q)} :
            LET name   == CompAt(pos).key
                bucket == TypeName(pos[1])
                loads  == LoadsMap(CompAt(pos).val)
            IN  /\ request.calculation_method = "python" =>
                       /\ HasEntry(final_results, bucket, name)
                       /\ DOMAIN EntryOf(final_results, bucket, name) = NumericKeys(loads)
                /\ ( /\ request.calculation_method = "excel"
                     /\ HasSimpleDriver(name)
                     /\ HasEntry(final_results, bucket, name)
                     /\ ~IsErrorEntry(EntryOf(final_results, bucket, name)) ) =>
                       DOMAIN EntryOf(final_results, bucket, name) = NumericKeys(loads)

\* a spreadsheet run returned the results of a row-by-row component one of
\* whose two load cases was an error marker
C15_Witness ==
    /\ pc = "save"
    /\ request.calculation_method = "excel"
    /\ IsBucketed(final_results)
    /\ \E pos \in {q \in Positions : IsComponent(q)} :
        LET name  == CompAt(pos).key
            loads == LoadsMap(CompAt(pos).val)
        IN  /\ HasSimpleDriver(name)
            /\ HasEntry(final_results, TypeName(pos[1]), name)
            /\ NumericKeys(loads) # {} /\ NumericKeys(loads) # DOMAIN loads
            /\ DOMAIN EntryOf(final_results, TypeName(pos[1]), name) = NumericKeys(loads)

\* C16: a spreadsheet run without a registry file is not fatal: the backend
\* falls back to compiled-in defaults and still processes the components, so
\* the run returns the two buckets with an entry for every component.
C16_RegistryAbsentNotFatal ==
    (pc = "in_excel" /\ xl_pc = "returned" /\ xl_registry = <<>>) =>
        /\ IsBucketed(xl_ret)
        /\ \A pos \in {q \in Positions : IsComponent(q)} :
               HasEntry(xl_ret, TypeName(pos[1]), CompAt(pos).key)

\* the component's calculator runs the summary driver
HasMasterDriver(name) ==
    LET config == find_registry_config(name, xl_registry)
    IN  ~Falsy(config) /\ config.driver = "excel_master"

\* C17: the result of a component of the summary driver has exactly the load
\* cases of the request as its keys, each with the same aggregate reserve
\* factor and the same critical-location note.
C17_MasterKeysAreRequested ==
    (pc \in {"save", "respond", "done"} /\ request.calculation_method = "excel"
        /\ IsBucketed(final_results)) =>
        \A pos \in {q \in Positions : IsComponent(q)} :
            LET name   == CompAt(pos).key
                bucket == TypeName(pos[1])
            IN  ( /\ HasMasterDriver(name)
                  /\ HasEntry(final_results, bucket, name)
                  /\ ~IsErrorEntry(EntryOf(final_results, bucket, name)) ) =>
                    LET entry == EntryOf(final_results, bucket, name)
                    IN  /\ DOMAIN entry = Range(request.load_cases)
                        /\ \A a, b \in DOMAIN entry :
                               entry[a].RF = entry[b].RF /\ entry[a].Note = entry[b].Note

\* C18: in a spreadsheet run a component whose name matches no registry entry
\* is not dropped: a default configuration is applied and the component has an
\* entry in the output of the run.
C18_UnmatchedStillReported ==
    (pc = "in_excel" /\ xl_pc = "returned" /\ xl_exc = None /\ xl_registry # <<>>) =>
        \A pos \in {q \in Positions : IsComponent(q)} :
            Falsy(find_registry_config(CompAt(pos).key, xl_registry)) =>
                HasEntry(xl_ret, TypeName(pos[1]), CompAt(pos).key)

\* the config the component matcher finds for the name in the compiled-in table
MatcherConfig(name) == find_registry_config(name, ALLOWABLES)

\* config.get(key, default)
ConfigGet(config, key, default) == IF key \in DOMAIN config THEN config[key] ELSE default

\* C19: the native functions resolve allowables as the component matcher does
\* on the compiled-in table: the config of the exact key, else of the first
\* table key whose text occurs case-insensitively in the name, else the default
\* of the archetype (generic panel default, Default_Joint).
C19_ResolutionIsMatcher ==
    eng_pc = "returned" =>
        LET found  == MatcherConfig(eng_name)
            config == IF found # None THEN found
                      ELSE IF eng_fn = "panel" THEN [Shear |-> 100, Compression |-> 100]
                      ELSE Lookup(ALLOWABLES, S_Default_Joint)
        IN  \A lc \in NumericCases :
                eng_result[lc].Allowable =
                    IF eng_fn = "joint" THEN ConfigGet(config, "Shear", 25000)
                    ELSE IF eng_result[lc].Failure_Mode = "Compression"
                         THEN ConfigGet(config, "Compression", 100)
                         ELSE ConfigGet(config, "Shear", 100)

\* |x| as a quotient
AbsQ(x) == [num |-> AbsInt(x.n), den |-> x.d]

\* C20: in every panel record Applied_Load and Allowable belong to the mode
\* named by Failure_Mode: |Fx| rounded and the compression allowable for
\* "Compression", |Fxy| rounded and the shear allowable for "Shear".
C20_LoadAndAllowableOfMode ==
    PanelReturned =>
        \A lc \in NumericCases :
            LET rec   == eng_result[lc]
                force == eng_loads[lc]
            IN  IF rec.Failure_Mode = "Compression"
                THEN /\ NearestHundredth(rec.Applied_Load, AbsQ(force.Fx_Nmm))
                     /\ rec.Allowable = PanelAllowComp(eng_name)
                ELSE /\ rec.Failure_Mode = "Shear"
                     /\ NearestHundredth(rec.Applied_Load, AbsQ(force.Fxy_Nmm))
                     /\ rec.Allowable = PanelAllowShear(eng_name)

\* a panel call where the two allowables differ (100 and 50000) and so do the
\* two loads: compression governs, with |Fx| = 50 and the allowable 100
C20_Witness ==
    /\ PanelReturned
    /\ eng_name = S_Front_Spar_Splice
    /\ \E lc \in NumericCases :
        /\ eng_loads[lc].Fx_Nmm = Num(50, 1)
        /\ eng_loads[lc].Fxy_Nmm = Num(200, 1)
        /\ eng_result[lc].Failure_Mode = "Compression"
        /\ eng_result[lc].Applied_Load = 5000
        /\ eng_result[lc].Allowable = 100

----------------------------------------------------------------------------
(* The application handle of a spreadsheet run *)

\* app.quit() was called (line 135); "quit_failed" when the call raised, which
\* line 136 swallows
QuitCalled == app \in {"quit", "quit_failed"}

\* both loops of lines 54-57 ran to their end
LoopsDone == xl_ti = 2 /\ xl_ci > Len(CompsOf(extracted, 2))

\* C21: once the application was started in a spreadsheet run, quit is called
\* on it exactly once: on every path on which the function returns, normal or
\* by exception; not before the last component was processed or abandoned;
\* and never while a workbook is being opened, written or read.
C21_QuitOnceAtEnd ==
    /\ []((xl_pc = "returned" /\ app # "none") => QuitCalled)
    /\ [](QuitCalled => xl_pc = "returned")
    /\ [](xl_pc \in {"open", "drive", "close"} => app = "running")
    /\ [][QuitCalled => app' = app]_vars
    /\ [][(app = "running" /\ app' # "running") =>
            (open_books = {} /\ wb = None /\ (xl_exc # None \/ LoopsDone))]_vars

\* a run in which the second component's sheet was absent returned with the
\* application quit
C21_Witness ==
    /\ xl_pc = "returned"
    /\ app = "quit"
    /\ xl_exc = Exc("sheet not found")
    /\ Cardinality(opened_for) = 2
    /\ ~LoopsDone

----------------------------------------------------------------------------
(* The range of the reserve factor *)

\* the applied load of the term that governs a numeric record: |Fx| or |Fxy|
\* of the mode the panel record names, the resultant of a joint record
GoverningLoad(fn, rec, loads) ==
    IF fn = "joint"
    THEN Norm3(loads.Fx, loads.Fy, loads.Fz)
    ELSE IF rec.Failure_Mode = "Compression"
         THEN Abs(loads.Fx_Nmm)
         ELSE Abs(loads.Fxy_Nmm)

\* C23: every record the native panel and joint functions return has RF >= 0,
\* whatever the signs and sizes of the forces, and has RF = 99.99 whenever the
\* applied load of its governing term is <= 1e-6.
C23_RFNonNegativeWithSentinel ==
    eng_pc = "returned" =>
        \A lc \in NumericCases :
            /\ lc \in DOMAIN eng_result
            /\ eng_result[lc].RF >= 0
            /\ ~GtEps(GoverningLoad(eng_fn, eng_result[lc], eng_loads[lc])) =>
                   eng_result[lc].RF = Sentinel

\* a panel call with a negative Fx in one load case (RF 0.75 from |Fx| = 200)
\* and no in-plane load in the other (RF 99.99)
C23_Witness ==
    /\ PanelReturned
    /\ eng_name = S_Upper_Skin_Panel
    /\ \E lc1, lc2 \in NumericCases :
        /\ eng_loads[lc1].Fx_Nmm = Num(-200, 1)
        /\ eng_result[lc1].RF = 75
        /\ eng_result[lc1].Failure_Mode = "Compression"
        /\ eng_loads[lc2].Fx_Nmm = Num(0, 1)
        /\ eng_loads[lc2].Fxy_Nmm = Num(0, 1)
        /\ eng_result[lc2].RF = Sentinel

----------------------------------------------------------------------------
(* The chapters of the heuristic path as a partition *)

\* the places <<chapter, position>> of the report at which the name stands
PlacesOf(report, name) ==
    {p \in UNION {{<<i, j>> : j \in DOMAIN report[i].val} : i \in DOMAIN report} :
        report[p[1]].val[p[2]].key = name}

\* C24: on the heuristic path every input component with non-empty data stands
\* in exactly one chapter, with its data unchanged; a component with empty
\* data stands in no chapter; no chapter holds a component that is not in the
\* input; and no returned chapter is empty.
C24_ChaptersPartition ==
    (org_pc # "idle" /\ ~TaggedIn) =>
        /\ \A i \in DOMAIN org_in :
               LET places == PlacesOf(org_out, org_in[i].key)
               IN  IF org_in[i].val = <<>>
                   THEN places = {}
                   ELSE /\ Cardinality(places) = 1
                        /\ \A p \in places : org_out[p[1]].val[p[2]].val = org_in[i].val
        /\ \A i \in DOMAIN org_out :
               /\ org_out[i].val # <<>>
               /\ \A j \in DOMAIN org_out[i].val :
                      \E k \in DOMAIN org_in : org_in[k].key = org_out[i].val[j].key
        /\ \A i, j \in DOMAIN org_out : org_out[i].key = org_out[j].key => i = j

\* a component without data beside one with data: one chapter came back,
\* holding the second only
C24_Witness ==
    /\ org_pc = "organized"
    /\ org_in = <<Entry(S_Rib_12, <<>>), Entry(S_Bracket_7, ResultsA)>>
    /\ org_out = <<Entry(T_Misc, <<Entry(S_Bracket_7, ResultsA)>>)>>

----------------------------------------------------------------------------
(* A request whose method names no backend *)

OtherMethod == request.calculation_method \notin {"python", "excel"}

\* C25: a calculation_method other than "python" or "excel" is not rejected:
\* the request does not end with an error status on its account, neither
\* backend runs, the results after the calculation phase, in the results file
\* when it was written and in the response are {"Elements": {}, "Freebodies":
\* {}}, and the response reports status "Analysis Complete".
C25_OtherMethodEmptyResults ==
    OtherMethod =>
        /\ pc \notin {"http500", "in_excel"}
        /\ xl_pc = "off"
        /\ pc \in {"save", "respond", "done"} => final_results = EmptyResults
        /\ saved # None => saved = EmptyResults
        /\ pc = "done" =>
               /\ response.status = "Analysis Complete"
               /\ response.method = request.calculation_method
               /\ response.results = EmptyResults

\* a "csv" request for which loads had been extracted was answered with the
\* empty structure, which is also what the results file holds
C25_Witness ==
    /\ pc = "done"
    /\ request.calculation_method = "csv"
    /\ extracted.Elements # <<>>
    /\ extracted.Freebodies # <<>>
    /\ saved = EmptyResults
    /\ response.results = EmptyResults
    /\ response.status = "Analysis Complete"

----------------------------------------------------------------------------
(* The routing of the mapping entries *)

\* the lower-cased name contains "panel", "skin" or "clip"
NamedAsElement(name) == \E w \in {S_panel, S_skin, S_clip} : Contains(w, Lower(name))

\* the positions of the bucket at which the name stands
InBucket(bucket, name) == {i \in DOMAIN bucket : bucket[i].key = name}

\* the extractor calls made for the name
CallsFor(name) == {i \in DOMAIN extract_calls : extract_calls[i].name = name}

\* C26: every mapping entry with a non-empty ids list is in exactly one bucket
\* of the extracted data, Elements if and only if its lower-cased name contains
\* "panel", "skin" or "clip", whatever its declared type, and the one extractor
\* call made for it is the bucket's extractor on its first id; an entry whose
\* ids list is empty or missing is in no bucket and no extractor is called for
\* it; the buckets hold no other names.
C26_RoutedByNameOnly ==
    pc \notin {"off", "start", "http404"} =>
        /\ \A ci \in DOMAIN mapping_data :
               LET entry  == mapping_data[ci]
                   name   == entry.key
                   in_el  == InBucket(extracted.Elements, name)
                   in_fb  == InBucket(extracted.Freebodies, name)
                   calls  == CallsFor(name)
               IN  IF "ids" \in DOMAIN entry.val /\ Len(entry.val.ids) > 0
                   THEN /\ Cardinality(in_el) + Cardinality(in_fb) = 1
                        /\ in_el # {} <=> NamedAsElement(name)
                        /\ Cardinality(calls) = 1
                        /\ \A i \in calls :
                               /\ extract_calls[i].id = entry.val.ids[1]
                               /\ extract_calls[i].fn =
                                      IF in_el # {} THEN "extract_shell_forces"
                                      ELSE "extract_freebody_loads"
                        /\ \A i \in in_el : DOMAIN extracted.Elements[i].val = {"Forces"}
                        /\ \A i \in in_fb : DOMAIN extracted.Freebodies[i].val = {"Loads"}
                   ELSE in_el = {} /\ in_fb = {} /\ calls = {}
        /\ \A i \in DOMAIN extracted.Elements :
               \E ci \in DOMAIN mapping_data : mapping_data[ci].key = extracted.Elements[i].key
        /\ \A i \in DOMAIN extracted.Freebodies :
               \E ci \in DOMAIN mapping_data : mapping_data[ci].key = extracted.Freebodies[i].key

\* a run over the mapping in which "Flap_Shear_Clip", declared "freebody", with
\* ids 501 and 502 went to Elements with the shell forces of 501, beside
\* "Upper_Skin_Panel"
C26_Witness ==
    /\ pc = "calculate"
    /\ mapping_data = << MapEntry(S_Flap_Shear_Clip, <<501, 502>>, "freebody"),
                         MapEntry(S_Upper_Skin_Panel, <<12090>>, "panel") >>
    /\ extracted.Freebodies = <<>>
    /\ Len(extracted.Elements) = 2
    /\ extracted.Elements[1].key = S_Flap_Shear_Clip
    /\ extract_calls[1] = [name |-> S_Flap_Shear_Clip, fn |-> "extract_shell_forces", id |-> 501]

====
